---- MODULE Spec2Model ----
(***************************************************************************)
(* Model of scripts/add_captures.py: the sync of capture PDFs from a local *)
(* <site>/<date>/ folder to the captures table, with the per-site          *)
(* mapping.json that assigns file stems to document URLs.                  *)
(*                                                                         *)
(* One run of main() is a sequence of steps (pc); every step is one of the *)
(* externally visible operations of the script: the prompt, the two halves *)
(* of save_mapping (open(..., "w") truncates, json.dump writes), the       *)
(* hashing of the file, the INSERT ... ON CONFLICT statement and the       *)
(* commit.  Runs follow each other without bound; the captures table and   *)
(* mapping.json persist between runs.                                      *)
(***************************************************************************)
EXTENDS Integers, Sequences, FiniteSets, TLC

VARIABLES
    captures,      \* committed rows of the captures table
    txn,           \* the table as this connection sees it (committed + uncommitted)
    mapping_file,  \* <site>/mapping.json on disk
    next_uuid,     \* the next value uuid.uuid4() returns
    pc,            \* position of the process inside main()
    args,          \* parsed command line: date, dry_run
    pdfs,          \* sorted(date_dir.glob("*.pdf")): sequence of files
    docs,          \* result of get_site_documents for this run
    mapping,       \* in-memory mapping dict
    n,             \* index in pdfs of the file being processed
    choice,        \* the answer read by input() for the current file
    doc_id,        \* result of resolve_document for the current file
    row,           \* row returned by the upsert: capture_id, was_inserted
    inserted, updated, skipped,
    exit_code,     \* process exit status, NoExit while running
    outcome,       \* how the run ended
    log,           \* per file of this run: resolved document and result
    captures0,     \* the committed table when the run began
    assigned,      \* a prompt of this run was answered with an accepted index
    rerun,         \* this run repeats the previous run: same command, same folder,
                   \* same catalog
    saved,         \* history: per stem, the last assignment whose save completed
    env,           \* what the process finds: DATABASE_URL, the date folder, the catalog
    resume         \* this run runs the command of an interrupted run again, and
                   \* the table the interrupted run started from

vars == <<captures, txn, mapping_file, next_uuid, pc, args, pdfs, docs, mapping,
          n, choice, doc_id, row, inserted, updated, skipped, exit_code,
          outcome, log, captures0, assigned, rerun, saved, env, resume>>

---------------------------------------------------------------------------
(* Bounds of the model *)

\* uuid4 values the runs may draw in total (one per executed statement)
MaxUuid == 2

---------------------------------------------------------------------------
(* Constants of the program and the small input universes *)

RESEARCHER_ID == "36339282-36e1-41b8-ad8b-bba0fff72e64"

Site == "trans-allegheny"

Dates == {"2026-02-16"}

\* file stems, in the order sorted() gives their paths
Stems == <<"north-tower", "south-wing">>

\* file contents (byte strings), by number
Contents == {1, 2}

\* the documents table rows the site can have, in the query's ORDER BY order
Documents ==
    << [document_id |-> "doc-7", url |-> "https://example.org/doc/7"],
       [document_id |-> "doc-8", url |-> "https://example.org/doc/8"] >>

\* a row written by another tool, present before the first run
ForeignRow ==
    [capture_id |-> 0, document_id |-> "doc-7", captured_by |-> "crawler",
     capture_ts |-> "2026-01-01T00:00:00+00:00", kind |-> "pdf",
     http_status |-> 200, file_path |-> "archive/old.pdf",
     content_hash |-> "AA11", notes |-> "imported"]

None == "None"
NoExit == -1
NULL == "NULL"

---------------------------------------------------------------------------
(* Helpers *)

Range(f) == {f[x] : x \in DOMAIN f}

EmptyMap == [s \in {} |-> ""]

\* h.hexdigest() of the bytes of a file (injective on the contents modelled)
hexdigest(content) == <<"aa11", "bb22">>[content]

\* str.upper() on the digests
upper(str) ==
    CASE str = "aa11" -> "AA11"
      [] str = "bb22" -> "BB22"
      [] OTHER -> str

sha256(content) == upper(hexdigest(content))

\* the folders <site>/<date>/ can be: each stem absent or present with a content
Dirs == UNION {[S -> Contents] : S \in SUBSET Range(Stems)}

\* sorted(date_dir.glob("*.pdf"))
sorted_glob(dir) ==
    LET present == SelectSeq(Stems, LAMBDA s : s \in DOMAIN dir)
    IN  [k \in 1..Len(present) |-> [stem |-> present[k], content |-> dir[present[k]]]]

\* str(pdf.relative_to(Path.home())) with forward slashes
rel_path(date, stem) ==
    "Documents/PhD/Captures/" \o Site \o "/" \o date \o "/" \o stem \o ".pdf"

capture_ts(date) == date \o "T12:00:00+00:00"

\* what get_site_documents can return: the rows present, in ORDER BY order
Catalogs ==
    {SelectSeq(Documents, LAMBDA d : d \in S) : S \in SUBSET Range(Documents)}

\* only the first pair reaches the file
json_dump_first_pair(m) ==
    LET keys == SelectSeq(Stems, LAMBDA s : s \in DOMAIN m)
    IN  [k \in 1..(IF keys = <<>> THEN 0 ELSE 1) |-> <<keys[k], m[keys[k]]>>]

\* json.dump(mapping, f, indent=2, sort_keys=True): the pairs in key order
json_dump(m) ==
    LET keys == SelectSeq(Stems, LAMBDA s : s \in DOMAIN m)
    IN  [k \in 1..Len(keys) |-> <<keys[k], m[keys[k]]>>]

\* json.load(f) of a completely written file
json_load(text) ==
    [s \in {text[k][1] : k \in DOMAIN text} |->
        text[CHOOSE k \in DOMAIN text : text[k][1] = s][2]]

NoFile == [exists |-> FALSE, complete |-> FALSE, text |-> <<>>]

\* load_mapping succeeds unless the file exists and is not complete JSON
load_fails(file) == file.exists /\ ~file.complete

load_mapping(file) ==
    IF file.exists /\ file.complete THEN json_load(file.text) ELSE EmptyMap

\* the entries a reader of mapping.json finds
Persisted == load_mapping(mapping_file)

IndexRange == (0 - Len(Documents) - 1)..Len(Documents)

\* what the user can type at the prompt (after strip().lower())
Responses == {"s", "x"} \cup {ToString(k) : k \in IndexRange}

\* int(choice) raises ValueError
ValueError(str) == ~\E k \in IndexRange : ToString(k) = str

\* int(choice)
int(str) == CHOOSE k \in IndexRange : ToString(k) = str

\* docs[idx] raises IndexError
IndexError(seq, idx) == idx >= Len(seq) \/ idx < 0 - Len(seq)

\* docs[idx] of a Python list, as a 1-based position: a negative idx counts
\* from the end of the list
list_index(seq, idx) == IF idx >= 0 THEN idx + 1 ELSE Len(seq) + idx + 1

\* the first candidate with the url, as next((d for d in docs if ...), None)
first_match(candidates, url) ==
    LET hits == {k \in DOMAIN candidates : candidates[k].url = url}
    IN  IF hits = {} THEN 0 ELSE CHOOSE k \in hits : \A j \in hits : k <= j

\* resolve_document, lines 90-94: the position in docs of the document the
\* stem is mapped to, 0 when the stem is not mapped or its url is not in docs
mapped_document(stem, candidates, m) ==
    IF stem \in DOMAIN m THEN first_match(candidates, m[stem]) ELSE 0

\* mapping = {stem: doc["url"]}: the dict is rebuilt with the stem's entry only
assign_document_fresh_dict(stem, candidates, m, answer) ==
    IF answer = "s" \/ ValueError(answer) \/ IndexError(candidates, int(answer))
    THEN [doc_id |-> None, mapping |-> m, save |-> FALSE]
    ELSE LET doc == candidates[list_index(candidates, int(answer))]
         IN  [doc_id |-> doc.document_id,
              mapping |-> [s \in {stem} |-> doc.url],
              save |-> TRUE]

\* mapping.setdefault(stem, doc["url"]): an entry the stem already has is kept
assign_document_setdefault(stem, candidates, m, answer) ==
    IF answer = "s" \/ ValueError(answer) \/ IndexError(candidates, int(answer))
    THEN [doc_id |-> None, mapping |-> m, save |-> FALSE]
    ELSE LET doc == candidates[list_index(candidates, int(answer))]
         IN  [doc_id |-> doc.document_id,
              mapping |-> [s \in DOMAIN m \cup {stem} |->
                              IF s \in DOMAIN m THEN m[s] ELSE doc.url],
              save |-> TRUE]

\* resolve_document, lines 107-119, up to the call of save_mapping: the
\* document_id returned (None: skip), the mapping dict after it and whether
\* save_mapping is called
assign_document(stem, candidates, m, answer) ==
    IF answer = "s" \/ ValueError(answer) \/ IndexError(candidates, int(answer))
    THEN [doc_id |-> None, mapping |-> m, save |-> FALSE]
    ELSE LET doc == candidates[list_index(candidates, int(answer))]
         IN  [doc_id |-> doc.document_id,
              mapping |-> [s \in DOMAIN m \cup {stem} |->
                              IF s = stem THEN doc.url ELSE m[s]],
              save |-> TRUE]

\* the statement with the conflict target (document_id, file_path)
upsert_on_path(table, new) ==
    LET conflict == {r \in table : r.document_id = new.document_id
                                   /\ r.file_path = new.file_path}
    IN  IF conflict = {}
        THEN [table |-> table \cup {new},
              row |-> [capture_id |-> new.capture_id, was_inserted |-> TRUE]]
        ELSE [table |-> (table \ conflict) \cup
                        {[r EXCEPT !.content_hash = new.content_hash,
                                   !.capture_ts = new.capture_ts] : r \in conflict},
              row |-> [capture_id |-> (CHOOSE r \in conflict : TRUE).capture_id,
                       was_inserted |-> FALSE]]

\* a plain INSERT, without the ON CONFLICT clause and without the unique index
upsert_plain_insert(table, new) ==
    [table |-> table \cup {new},
     row |-> [capture_id |-> new.capture_id, was_inserted |-> TRUE]]

\* ON CONFLICT ... DO UPDATE SET capture_ts only: the path of the row stays
upsert_keeps_path(table, new) ==
    LET conflict == {r \in table : r.document_id = new.document_id
                                   /\ r.content_hash = new.content_hash}
    IN  IF conflict = {}
        THEN [table |-> table \cup {new},
              row |-> [capture_id |-> new.capture_id, was_inserted |-> TRUE]]
        ELSE [table |-> (table \ conflict) \cup
                        {[r EXCEPT !.capture_ts = new.capture_ts] : r \in conflict},
              row |-> [capture_id |-> (CHOOSE r \in conflict : TRUE).capture_id,
                       was_inserted |-> FALSE]]

\* the conflicting row is replaced by the new row (DELETE, then INSERT)
upsert_replaces_row(table, new) ==
    LET conflict == {r \in table : r.document_id = new.document_id
                                   /\ r.content_hash = new.content_hash}
    IN  [table |-> (table \ conflict) \cup {new},
         row |-> [capture_id |-> new.capture_id, was_inserted |-> conflict = {}]]

\* the statement with RETURNING capture_id, TRUE in place of (xmax = 0)
upsert_reports_insert(table, new) ==
    LET conflict == {r \in table : r.document_id = new.document_id
                                   /\ r.content_hash = new.content_hash}
    IN  IF conflict = {}
        THEN [table |-> table \cup {new},
              row |-> [capture_id |-> new.capture_id, was_inserted |-> TRUE]]
        ELSE [table |-> (table \ conflict) \cup
                        {[r EXCEPT !.file_path = new.file_path,
                                   !.capture_ts = new.capture_ts] : r \in conflict},
              row |-> [capture_id |-> (CHOOSE r \in conflict : TRUE).capture_id,
                       was_inserted |-> TRUE]]

\* the statement with the conflict target (capture_id), the primary key
upsert_on_capture_id(table, new) ==
    LET conflict == {r \in table : r.capture_id = new.capture_id}
    IN  IF conflict = {}
        THEN [table |-> table \cup {new},
              row |-> [capture_id |-> new.capture_id, was_inserted |-> TRUE]]
        ELSE [table |-> (table \ conflict) \cup
                        {[r EXCEPT !.file_path = new.file_path,
                                   !.capture_ts = new.capture_ts] : r \in conflict},
              row |-> [capture_id |-> (CHOOSE r \in conflict : TRUE).capture_id,
                       was_inserted |-> FALSE]]

\* the INSERT ... ON CONFLICT (document_id, content_hash) DO UPDATE statement
\* on a table: the table after it and the RETURNING row
upsert(table, new) ==
    LET conflict == {r \in table : r.document_id = new.document_id
                                   /\ r.content_hash = new.content_hash}
    IN  IF conflict = {}
        THEN [table |-> table \cup {new},
              row |-> [capture_id |-> new.capture_id, was_inserted |-> TRUE]]
        ELSE [table |-> (table \ conflict) \cup
                        {[r EXCEPT !.file_path = new.file_path,
                                   !.capture_ts = new.capture_ts] : r \in conflict},
              row |-> [capture_id |-> (CHOOSE r \in conflict : TRUE).capture_id,
                       was_inserted |-> FALSE]]

\* the row main() builds for a file
capture_row(uuid, document_id, date, pdf) ==
    [capture_id |-> uuid, document_id |-> document_id,
     captured_by |-> RESEARCHER_ID, capture_ts |-> capture_ts(date),
     kind |-> "pdf", http_status |-> 200,
     file_path |-> rel_path(date, pdf.stem),
     content_hash |-> sha256(pdf.content), notes |-> NULL]

NoArgs == [date |-> "", dry_run |-> FALSE]
NoRow == [capture_id |-> 0, was_inserted |-> FALSE]
NoEnv == [db_url |-> "", dir_exists |-> FALSE, dir_empty |-> FALSE,
          catalog_empty |-> FALSE]
NoResume == [on |-> FALSE, table |-> {}]

---------------------------------------------------------------------------
(* State machine *)

Init ==
    /\ captures \in {{}, {ForeignRow}}
    /\ txn = captures
    /\ mapping_file = NoFile
    /\ next_uuid = 1
    /\ pc = "idle"
    /\ args = NoArgs
    /\ pdfs = <<>>
    /\ docs = <<>>
    /\ mapping = EmptyMap
    /\ n = 0
    /\ choice = ""
    /\ doc_id = None
    /\ row = NoRow
    /\ inserted = 0
    /\ updated = 0
    /\ skipped = 0
    /\ exit_code = NoExit
    /\ outcome = ""
    /\ log = <<>>
    /\ captures0 = {}
    /\ assigned = FALSE
    /\ rerun = FALSE
    /\ saved = EmptyMap
    /\ env = NoEnv
    /\ resume = NoResume

\* sys.exit(code) or the end of main(): the process is over
Ended(code, how) ==
    /\ pc' = "done"
    /\ exit_code' = code
    /\ outcome' = how

\* the except branch of main(): conn.rollback(), sys.exit(1)
Abort(how) ==
    /\ txn' = captures
    /\ Ended(1, how)

\* the end of the for body: the next file, or the summary and exit 0
NextFile ==
    /\ doc_id' = None
    /\ row' = NoRow
    /\ IF n < Len(pdfs)
       THEN /\ n' = n + 1
            /\ pc' = "resolve"
            /\ UNCHANGED <<exit_code, outcome>>
       ELSE /\ n' = n
            /\ Ended(0, "ok")

\* main() without the "if not docs" check of lines 170-173
Startup_without_catalog_check(db_url, date, dry_run, exists, found, catalog) ==
    /\ args' = [date |-> date, dry_run |-> dry_run]
    /\ env' = [db_url |-> db_url, dir_exists |-> exists,
               dir_empty |-> exists /\ found = <<>>,
               catalog_empty |-> catalog = <<>>]
    /\ captures0' = captures
    /\ IF db_url = ""
       THEN /\ Ended(1, "fatal_env")
            /\ UNCHANGED <<pdfs, docs, mapping, n>>
       ELSE IF ~exists
       THEN /\ Ended(1, "fatal_dir")
            /\ UNCHANGED <<pdfs, docs, mapping, n>>
       ELSE IF found = <<>>
       THEN /\ Ended(0, "no_pdfs")
            /\ UNCHANGED <<pdfs, docs, mapping, n>>
       ELSE IF load_fails(mapping_file)
       THEN /\ Ended(1, "error_load")
            /\ pdfs' = found
            /\ docs' = catalog
            /\ UNCHANGED <<mapping, n>>
       ELSE /\ pdfs' = found
            /\ docs' = catalog
            /\ mapping' = load_mapping(mapping_file)
            /\ n' = 1
            /\ pc' = "resolve"
            /\ UNCHANGED <<exit_code, outcome>>
    /\ UNCHANGED <<captures, txn, mapping_file, next_uuid, choice, doc_id, row,
                   inserted, updated, skipped, log, assigned, saved>>

\* main() where a folder without PDFs ends the run with sys.exit(1)
Startup_no_pdfs_is_error(db_url, date, dry_run, exists, found, catalog) ==
    /\ args' = [date |-> date, dry_run |-> dry_run]
    /\ env' = [db_url |-> db_url, dir_exists |-> exists,
               dir_empty |-> exists /\ found = <<>>,
               catalog_empty |-> catalog = <<>>]
    /\ captures0' = captures
    /\ IF db_url = ""
       THEN /\ Ended(1, "fatal_env")
            /\ UNCHANGED <<pdfs, docs, mapping, n>>
       ELSE IF ~exists
       THEN /\ Ended(1, "fatal_dir")
            /\ UNCHANGED <<pdfs, docs, mapping, n>>
       ELSE IF found = <<>>
       THEN /\ Ended(1, "no_pdfs")
            /\ UNCHANGED <<pdfs, docs, mapping, n>>
       ELSE IF load_fails(mapping_file)
       THEN /\ Ended(1, "error_load")
            /\ pdfs' = found
            /\ docs' = catalog
            /\ UNCHANGED <<mapping, n>>
       ELSE IF catalog = <<>>
       THEN /\ Ended(1, "fatal_catalog")
            /\ pdfs' = found
            /\ docs' = catalog
            /\ mapping' = load_mapping(mapping_file)
            /\ UNCHANGED n
       ELSE /\ pdfs' = found
            /\ docs' = catalog
            /\ mapping' = load_mapping(mapping_file)
            /\ n' = 1
            /\ pc' = "resolve"
            /\ UNCHANGED <<exit_code, outcome>>
    /\ UNCHANGED <<captures, txn, mapping_file, next_uuid, choice, doc_id, row,
                   inserted, updated, skipped, log, assigned, saved>>

\* main() from the parsed arguments up to the for loop
Startup(db_url, date, dry_run, exists, found, catalog) ==
    /\ args' = [date |-> date, dry_run |-> dry_run]
    /\ env' = [db_url |-> db_url, dir_exists |-> exists,
               dir_empty |-> exists /\ found = <<>>,
               catalog_empty |-> catalog = <<>>]
    /\ captures0' = captures
    /\ IF db_url = ""
       THEN /\ Ended(1, "fatal_env")
            /\ UNCHANGED <<pdfs, docs, mapping, n>>
       ELSE IF ~exists
       THEN /\ Ended(1, "fatal_dir")
            /\ UNCHANGED <<pdfs, docs, mapping, n>>
       ELSE IF found = <<>>
       THEN /\ Ended(0, "no_pdfs")
            /\ UNCHANGED <<pdfs, docs, mapping, n>>
       ELSE IF load_fails(mapping_file)
       THEN /\ Ended(1, "error_load")
            /\ pdfs' = found
            /\ docs' = catalog
            /\ UNCHANGED <<mapping, n>>
       ELSE IF catalog = <<>>
       THEN /\ Ended(1, "fatal_catalog")
            /\ pdfs' = found
            /\ docs' = catalog
            /\ mapping' = load_mapping(mapping_file)
            /\ UNCHANGED n
       ELSE /\ pdfs' = found
            /\ docs' = catalog
            /\ mapping' = load_mapping(mapping_file)
            /\ n' = 1
            /\ pc' = "resolve"
            /\ UNCHANGED <<exit_code, outcome>>
    /\ UNCHANGED <<captures, txn, mapping_file, next_uuid, choice, doc_id, row,
                   inserted, updated, skipped, log, assigned, saved>>

\* the script is started: any command line, folder content and catalog
Begin ==
    /\ pc = "idle"
    /\ \E db_url \in {"", "postgresql://db"}, date \in Dates, dry_run \in BOOLEAN,
          exists \in BOOLEAN, dir \in Dirs, catalog \in Catalogs :
        /\ ~dry_run => next_uuid <= MaxUuid
        /\ Startup(db_url, date, dry_run, exists, sorted_glob(dir), catalog)
    /\ rerun' = FALSE
    /\ resume' = NoResume

\* resolve_document, lines 90-95: the stem is mapped to a document of the
\* catalog, or the prompt is shown
Resolve ==
    /\ pc = "resolve"
    /\ LET k == mapped_document(pdfs[n].stem, docs, mapping) IN
        IF k # 0
        THEN /\ doc_id' = docs[k].document_id
             /\ pc' = "hash"
        ELSE /\ pc' = "prompt"
             /\ UNCHANGED doc_id
    /\ UNCHANGED <<captures, txn, mapping_file, next_uuid, args, pdfs, docs, mapping,
                   n, choice, row, inserted, updated, skipped, exit_code, outcome,
                   log, captures0, assigned, rerun, saved, env, resume>>

\* choice = input(...).strip().lower()
Prompt ==
    /\ pc = "prompt"
    /\ \E answer \in Responses : choice' = answer
    /\ pc' = "assign"
    /\ UNCHANGED <<captures, txn, mapping_file, next_uuid, args, pdfs, docs, mapping,
                   n, doc_id, row, inserted, updated, skipped, exit_code, outcome,
                   log, captures0, assigned, rerun, saved, env, resume>>

\* resolve_document, lines 107-119 up to save_mapping, and the skip branch of main()
Assign ==
    /\ pc = "assign"
    /\ LET r == assign_document(pdfs[n].stem, docs, mapping, choice) IN
        /\ mapping' = r.mapping
        /\ assigned' = (assigned \/ r.save)
        /\ IF r.doc_id = None
           THEN /\ skipped' = skipped + 1
                /\ log' = Append(log, [doc_id |-> None, result |-> "skipped"])
                /\ NextFile
           ELSE /\ doc_id' = r.doc_id
                /\ pc' = "save_open"
                /\ UNCHANGED <<skipped, log, n, row, exit_code, outcome>>
    /\ choice' = ""
    /\ UNCHANGED <<captures, txn, mapping_file, next_uuid, args, pdfs, docs,
                   inserted, updated, captures0, rerun, saved, env, resume>>

\* save_mapping: open(mapping_file, "w") creates or truncates the file
SaveOpen ==
    /\ pc = "save_open"
    /\ mapping_file' = [exists |-> TRUE, complete |-> FALSE, text |-> <<>>]
    /\ pc' = "save_dump"
    /\ UNCHANGED <<captures, txn, next_uuid, args, pdfs, docs, mapping, n, choice,
                   doc_id, row, inserted, updated, skipped, exit_code, outcome,
                   log, captures0, assigned, rerun, saved, env, resume>>

\* open() raises OSError: nothing is written
SaveOpenFail ==
    /\ pc = "save_open"
    /\ Abort("error_save")
    /\ UNCHANGED <<captures, mapping_file, next_uuid, args, pdfs, docs, mapping, n,
                   choice, doc_id, row, inserted, updated, skipped, log,
                   captures0, assigned, rerun, saved, env, resume>>

\* save_mapping: json.dump writes the whole dict and the file is closed
SaveDump ==
    /\ pc = "save_dump"
    /\ mapping_file' = [exists |-> TRUE, complete |-> TRUE, text |-> json_dump(mapping)]
    /\ saved' = [s \in DOMAIN saved \cup {pdfs[n].stem} |->
                    IF s = pdfs[n].stem
                    THEN [url |-> mapping[s], document_id |-> doc_id]
                    ELSE saved[s]]
    /\ pc' = "hash"
    /\ UNCHANGED <<captures, txn, next_uuid, args, pdfs, docs, mapping, n, choice,
                   doc_id, row, inserted, updated, skipped, exit_code, outcome,
                   log, captures0, assigned, rerun, env, resume>>

\* the write raises OSError: the truncated file stays
SaveDumpFail ==
    /\ pc = "save_dump"
    /\ Abort("error_save")
    /\ UNCHANGED <<captures, mapping_file, next_uuid, args, pdfs, docs, mapping, n,
                   choice, doc_id, row, inserted, updated, skipped, log,
                   captures0, assigned, rerun, saved, env, resume>>

\* the step without the dry-run branch
Hash_without_dry_run ==
    /\ pc = "hash"
    /\ pc' = "execute"
    /\ UNCHANGED <<inserted, log, n, doc_id, row, exit_code, outcome>>
    /\ UNCHANGED <<captures, txn, mapping_file, next_uuid, args, pdfs, docs, mapping,
                   choice, updated, skipped, captures0, assigned, rerun, saved, env, resume>>

\* hash_val = sha256(pdf), and the dry-run branch
Hash ==
    /\ pc = "hash"
    /\ IF args.dry_run
       THEN /\ inserted' = inserted + 1
            /\ log' = Append(log, [doc_id |-> doc_id, result |-> "would_insert"])
            /\ NextFile
       ELSE /\ pc' = "execute"
            /\ UNCHANGED <<inserted, log, n, doc_id, row, exit_code, outcome>>
    /\ UNCHANGED <<captures, txn, mapping_file, next_uuid, args, pdfs, docs, mapping,
                   choice, updated, skipped, captures0, assigned, rerun, saved, env, resume>>

\* open() or read() of the PDF raises OSError
HashFail ==
    /\ pc = "hash"
    /\ Abort("error_hash")
    /\ UNCHANGED <<captures, mapping_file, next_uuid, args, pdfs, docs, mapping, n,
                   choice, doc_id, row, inserted, updated, skipped, log,
                   captures0, assigned, rerun, saved, env, resume>>

\* cur.execute(INSERT ... ON CONFLICT ...), cur.fetchone()
Execute ==
    /\ pc = "execute"
    /\ next_uuid <= MaxUuid
    /\ LET r == upsert(txn, capture_row(next_uuid, doc_id, args.date, pdfs[n])) IN
        /\ txn' = r.table
        /\ row' = r.row
    /\ next_uuid' = next_uuid + 1
    /\ pc' = "commit"
    /\ UNCHANGED <<captures, mapping_file, args, pdfs, docs, mapping, n, choice,
                   doc_id, inserted, updated, skipped, exit_code, outcome, log,
                   captures0, assigned, rerun, saved, env, resume>>

\* the statement raises a psycopg2 error
ExecuteFail ==
    /\ pc = "execute"
    /\ next_uuid <= MaxUuid
    /\ next_uuid' = next_uuid + 1
    /\ Abort("error_execute")
    /\ UNCHANGED <<captures, mapping_file, args, pdfs, docs, mapping, n, choice,
                   doc_id, row, inserted, updated, skipped, log, captures0,
                   assigned, rerun, saved, env, resume>>

\* the step without conn.commit(): the rows stay in the open transaction
Commit_without_commit ==
    /\ pc = "commit"
    /\ captures' = captures
    /\ IF row.was_inserted
       THEN /\ inserted' = inserted + 1
            /\ UNCHANGED updated
       ELSE /\ updated' = updated + 1
            /\ UNCHANGED inserted
    /\ log' = Append(log, [doc_id |-> doc_id,
                           result |-> IF row.was_inserted THEN "inserted" ELSE "updated"])
    /\ NextFile
    /\ UNCHANGED <<txn, mapping_file, next_uuid, args, pdfs, docs, mapping, choice,
                   skipped, captures0, assigned, rerun, saved, env, resume>>

\* the loop body without the else branch of lines 229-232
Commit_counts_inserts_only ==
    /\ pc = "commit"
    /\ captures' = txn
    /\ IF row.was_inserted
       THEN /\ inserted' = inserted + 1
            /\ UNCHANGED updated
       ELSE UNCHANGED <<inserted, updated>>
    /\ log' = Append(log, [doc_id |-> doc_id,
                           result |-> IF row.was_inserted THEN "inserted" ELSE "updated"])
    /\ NextFile
    /\ UNCHANGED <<txn, mapping_file, next_uuid, args, pdfs, docs, mapping, choice,
                   skipped, captures0, assigned, rerun, saved, env, resume>>

\* conn.commit() and the counting of the file
Commit ==
    /\ pc = "commit"
    /\ captures' = txn
    /\ IF row.was_inserted
       THEN /\ inserted' = inserted + 1
            /\ UNCHANGED updated
       ELSE /\ updated' = updated + 1
            /\ UNCHANGED inserted
    /\ log' = Append(log, [doc_id |-> doc_id,
                           result |-> IF row.was_inserted THEN "inserted" ELSE "updated"])
    /\ NextFile
    /\ UNCHANGED <<txn, mapping_file, next_uuid, args, pdfs, docs, mapping, choice,
                   skipped, captures0, assigned, rerun, saved, env, resume>>

\* conn.commit() raises
CommitFail ==
    /\ pc = "commit"
    /\ Abort("error_commit")
    /\ UNCHANGED <<captures, mapping_file, next_uuid, args, pdfs, docs, mapping, n,
                   choice, doc_id, row, inserted, updated, skipped, log,
                   captures0, assigned, rerun, saved, env, resume>>

\* the locals of a process that is over
Forget ==
    /\ choice' = ""
    /\ doc_id' = None
    /\ row' = NoRow
    /\ inserted' = 0
    /\ updated' = 0
    /\ skipped' = 0
    /\ exit_code' = NoExit
    /\ outcome' = ""
    /\ log' = <<>>
    /\ assigned' = FALSE

\* no process: nothing but the table and mapping.json is left
Gone ==
    /\ pc' = "idle"
    /\ args' = NoArgs
    /\ pdfs' = <<>>
    /\ docs' = <<>>
    /\ mapping' = EmptyMap
    /\ n' = 0
    /\ captures0' = {}
    /\ rerun' = FALSE
    /\ env' = NoEnv
    /\ resume' = NoResume
    /\ Forget

\* the process has exited; the table and mapping.json stay for the next run
Exit ==
    /\ pc = "done"
    /\ Gone
    /\ UNCHANGED <<captures, txn, mapping_file, next_uuid, saved>>

\* the process is terminated inside the loop (Ctrl-C at the prompt, kill, power
\* loss): the server drops the open transaction, the files stay as they are
Kill ==
    /\ pc \in {"resolve", "prompt", "assign", "save_open", "save_dump", "hash",
              "execute", "commit"}
    /\ txn' = captures
    /\ Gone
    /\ UNCHANGED <<captures, mapping_file, next_uuid, saved>>

\* after a completed run that wrote, the same command is run again on the
\* unchanged folder and catalog
Repeat ==
    /\ pc = "done"
    /\ outcome = "ok"
    /\ ~args.dry_run
    /\ next_uuid <= MaxUuid
    /\ args' = args
    /\ pdfs' = pdfs
    /\ docs' = docs
    /\ mapping' = load_mapping(mapping_file)
    /\ n' = 1
    /\ pc' = "resolve"
    /\ captures0' = captures
    /\ rerun' = TRUE
    /\ resume' = NoResume
    /\ Forget
    /\ UNCHANGED <<captures, txn, mapping_file, next_uuid, saved, env>>

\* a writing run is terminated inside the loop as in Kill, and the user is
\* going to run the same command again on the unchanged folder and catalog
Interrupt ==
    /\ pc \in {"resolve", "prompt", "assign", "save_open", "save_dump", "hash",
              "execute", "commit"}
    /\ ~args.dry_run
    /\ ~resume.on
    /\ txn' = captures
    /\ pc' = "interrupted"
    /\ mapping' = EmptyMap
    /\ n' = 0
    /\ rerun' = FALSE
    /\ Forget
    /\ UNCHANGED <<captures, mapping_file, next_uuid, args, pdfs, docs, captures0,
                   saved, env, resume>>

\* the command of the interrupted run is run again
Resume ==
    /\ pc = "interrupted"
    /\ next_uuid <= MaxUuid
    /\ Startup(env.db_url, args.date, args.dry_run, TRUE, pdfs, docs)
    /\ rerun' = FALSE
    /\ resume' = [on |-> TRUE, table |-> captures0]

Next ==
    \/ Begin
    \/ Repeat
    \/ Resolve
    \/ Prompt
    \/ Assign
    \/ SaveOpen
    \/ SaveOpenFail
    \/ SaveDump
    \/ SaveDumpFail
    \/ Hash
    \/ HashFail
    \/ Execute
    \/ ExecuteFail
    \/ Commit
    \/ CommitFail
    \/ Kill
    \/ Interrupt
    \/ Resume
    \/ Exit

Spec == Init /\ [][Next]_vars

---------------------------------------------------------------------------
(* Properties *)

\* the rows of a table with the identity (document_id, content_hash)
RowsOf(table, document_id, content_hash) ==
    {r \in table : r.document_id = document_id /\ r.content_hash = content_hash}

\* the run is over, it was not a dry run and every file was processed
CompletedWrite == pc = "done" /\ outcome = "ok" /\ ~args.dry_run

\* C1: in every reachable state the captures table, committed or as seen
\* inside the open transaction, holds at most one row for each
\* (document_id, content_hash) pair.
C1_UniquePerDocumentAndDigest ==
    \A table \in {captures, txn} :
        \A r1, r2 \in table :
            (r1.document_id = r2.document_id /\ r1.content_hash = r2.content_hash)
                => r1 = r2

\* a run in which two files met the same row: one inserted it, the next updated it
C1_Witness ==
    /\ CompletedWrite
    /\ inserted = 1
    /\ updated = 1
    /\ Cardinality(captures) = Cardinality(captures0) + 1

\* C2 as stated: a completed writing run repeated on the same date, files and
\* catalog, with the mapping the first run left, performs no insert, reports
\* every file it does not skip as updated and leaves the number of rows unchanged.
C2_Original ==
    (CompletedWrite /\ rerun) =>
        /\ inserted = 0
        /\ \A k \in DOMAIN log : log[k].result \in {"skipped", "updated"}
        /\ Cardinality(captures) = Cardinality(captures0)

\* C2 as amended: the same, for a repeated run in which no prompt is answered
\* with an accepted index.
C2_RepeatedRunInsertsNothing ==
    (CompletedWrite /\ rerun /\ ~assigned) =>
        /\ inserted = 0
        /\ \A k \in DOMAIN log : log[k].result \in {"skipped", "updated"}
        /\ Cardinality(captures) = Cardinality(captures0)

\* a repeated run over two files: one resolved from the mapping and updated,
\* the other skipped again
C2_Witness ==
    /\ CompletedWrite
    /\ rerun
    /\ ~assigned
    /\ Len(pdfs) = 2
    /\ updated = 1
    /\ skipped = 1
    /\ Cardinality(captures) = Cardinality(captures0)

\* two files of a completed writing run with the same bytes, resolved to the
\* same document
TwinFiles ==
    /\ CompletedWrite
    /\ Len(pdfs) = 2
    /\ pdfs[1].content = pdfs[2].content
    /\ pdfs[1].stem # pdfs[2].stem
    /\ log[1].doc_id # None
    /\ log[1].doc_id = log[2].doc_id

\* the table holds exactly one row for the twin files, with the second file's path
TwinRow ==
    LET rows == RowsOf(captures, log[1].doc_id, sha256(pdfs[1].content))
    IN  /\ Cardinality(rows) = 1
        /\ \A r \in rows : r.file_path = rel_path(args.date, pdfs[2].stem)

\* C3 as stated: two files with identical bytes and different names that
\* resolve to one document leave exactly one row for (document, digest); the
\* first file is counted as inserted, the second as updated, and the row has
\* the second file's path.
C3_Original ==
    TwinFiles =>
        /\ TwinRow
        /\ log[1].result = "inserted"
        /\ log[2].result = "updated"

\* C3 as amended: the same, except that the first file is counted as inserted
\* exactly when the table held no row for (document, digest) before the run,
\* and as updated otherwise.
C3_TwinFilesOneRow ==
    TwinFiles =>
        /\ TwinRow
        /\ log[1].result = "inserted"
            <=> RowsOf(captures0, log[1].doc_id, sha256(pdfs[1].content)) = {}
        /\ log[1].result \in {"inserted", "updated"}
        /\ log[2].result = "updated"

\* twin files whose row did not exist before the run
C3_Witness ==
    /\ TwinFiles
    /\ log[1].result = "inserted"
    /\ log[2].result = "updated"
    /\ \E r \in captures : r.file_path = rel_path(args.date, pdfs[2].stem)

\* the step that commits the upsert of a file
CommitStep ==
    /\ pc = "commit"
    /\ pc' = "resolve" \/ (pc' = "done" /\ outcome' = "ok")

\* C4: when the upsert of a file hits an existing row with the same
\* (document_id, content_hash), the committed table changes in that row only
\* and in its file_path and capture_ts only; the capture_id returned is the
\* row's and the identifier generated for the file is in no row.
C4_UpdateTouchesPathAndTimestampOnly ==
    [][(CommitStep /\ RowsOf(captures, doc_id, sha256(pdfs[n].content)) # {}) =>
        \E old \in captures :
            LET new == [old EXCEPT !.file_path = rel_path(args.date, pdfs[n].stem),
                                   !.capture_ts = capture_ts(args.date)]
            IN  /\ old.document_id = doc_id
                /\ old.content_hash = sha256(pdfs[n].content)
                /\ captures' = (captures \ {old}) \cup {new}
                /\ row.capture_id = old.capture_id
                /\ ~row.was_inserted
                /\ \A r \in captures' : r.capture_id # next_uuid - 1
      ]_vars

\* the row another tool wrote was hit by a file: it has the file's path and the
\* run's timestamp, and still its own identifier, actor and notes
C4_Witness ==
    \E r \in captures :
        /\ r.capture_id = ForeignRow.capture_id
        /\ r.captured_by = ForeignRow.captured_by
        /\ r.notes = ForeignRow.notes
        /\ r.file_path # ForeignRow.file_path
        /\ r.capture_ts # ForeignRow.capture_ts

\* the step of resolve_document that looks the stem up in the mapping
ResolveStep == pc = "resolve" /\ pc' \in {"hash", "prompt"}

\* C5: once an interactive resolution of stem S has completed (index accepted,
\* mapping saved) with document D, every later resolution of S, in any run,
\* returns D's identifier without a prompt and leaves the mapping in memory and
\* on disk unchanged, as long as the catalog of that run has a document with
\* D's url.
C5_SavedAssignmentIsReused ==
    [][(/\ ResolveStep
        /\ pdfs[n].stem \in DOMAIN saved
        /\ \E d \in Range(docs) : d.url = saved[pdfs[n].stem].url) =>
            /\ pc' = "hash"
            /\ doc_id' = saved[pdfs[n].stem].document_id
            /\ mapping' = mapping
            /\ mapping_file' = mapping_file
      ]_vars

\* a later run resolved, without a prompt, a stem whose assignment an earlier
\* run saved
C5_Witness ==
    /\ pc = "hash"
    /\ ~assigned
    /\ pdfs[n].stem \in DOMAIN saved
    /\ doc_id = saved[pdfs[n].stem].document_id
    /\ Len(docs) = 2

\* the answer is one of the labels [0] .. [len(docs) - 1] the prompt shows
ShownIndex(answer, candidates) ==
    \E k \in 0..(Len(candidates) - 1) : answer = ToString(k)

\* the step of resolve_document and main() that acts on the answer
AssignStep == pc = "assign" /\ pc' \in {"resolve", "save_open", "done"}

\* C6 as stated: every answer that is not a valid index of the candidate list
\* ("s", a non-number, a number out of range, negative numbers included) is a
\* skip: the mapping is unchanged in memory and on disk, the file is counted as
\* skipped, nothing is written for it and the run goes on with the next file.
C6_Original ==
    [][(AssignStep /\ ~ShownIndex(choice, docs)) =>
            /\ mapping' = mapping
            /\ mapping_file' = mapping_file
            /\ skipped' = skipped + 1
            /\ inserted' = inserted
            /\ updated' = updated
            /\ captures' = captures
            /\ txn' = txn
            /\ pc' = "resolve" \/ (pc' = "done" /\ exit_code' = 0)
      ]_vars

\* C7: a dry run never writes to the captures table, yet it has saved every
\* assignment made at its prompts, and when none of its N files is skipped it
\* ends with N counted as would-insert, none as updated and none as skipped,
\* whatever rows the table holds.
C7_DryRunWritesNoRow ==
    (pc # "idle" /\ args.dry_run) =>
        /\ captures = captures0
        /\ txn = captures0
        /\ (pc = "done" /\ outcome = "ok") =>
            /\ Persisted = mapping
            /\ load_fails(mapping_file) = FALSE
            /\ updated = 0
            /\ skipped = 0 => inserted = Len(pdfs)
            /\ (\A k \in DOMAIN log : log[k].doc_id # None) => skipped = 0

\* a dry run over two files, both assigned at the prompt, the first of which
\* already has its row in the table
C7_Witness ==
    /\ pc = "done"
    /\ outcome = "ok"
    /\ args.dry_run
    /\ assigned
    /\ Len(pdfs) = 2
    /\ inserted = 2
    /\ DOMAIN Persisted = Range(Stems)
    /\ RowsOf(captures, log[1].doc_id, sha256(pdfs[1].content)) # {}

\* C8 as stated: when a file cannot be read for hashing only that file is
\* given up: the process does not end there unless the file is the last one,
\* and then it ends with exit status 0.
C8_Original ==
    [][(pc = "hash" /\ pc' = "done") => (n = Len(pdfs) /\ exit_code' = 0)]_vars

\* a step that ends the run in the except branch of main()
FailStep == pc \notin {"idle", "done"} /\ pc' = "done" /\ exit_code' # 0

C10_Original ==
    pc \notin {"save_dump"} => DOMAIN saved \subseteq DOMAIN Persisted

\* the stem of the file at hand is mapped to a url no document of the catalog has
Stale ==
    /\ pdfs[n].stem \in DOMAIN mapping
    /\ first_match(docs, mapping[pdfs[n].stem]) = 0

\* the step of save_mapping that completes json.dump
SaveStep == pc = "save_dump" /\ pc' = "hash"

\* C11: when the stem's mapped url matches no document of the catalog, the
\* resolver raises nothing and changes nothing but goes on to the prompt; an
\* answer that is one of the shown indexes then replaces the stem's entry by
\* the url of the chosen document, leaves the other entries alone and calls
\* save_mapping, whose completed dump makes mapping.json hold the new entry;
\* the answer "s" leaves the stale entry in the dict and mapping.json untouched.
C11_StaleEntryIsRepairedAtThePrompt ==
    [][/\ (ResolveStep /\ Stale) =>
              /\ pc' = "prompt"
              /\ exit_code' = NoExit
              /\ mapping' = mapping
              /\ mapping_file' = mapping_file
       /\ (AssignStep /\ Stale /\ ShownIndex(choice, docs)) =>
              /\ pc' = "save_open"
              /\ DOMAIN mapping' = DOMAIN mapping
              /\ mapping'[pdfs[n].stem] = docs[int(choice) + 1].url
              /\ doc_id' = docs[int(choice) + 1].document_id
              /\ \A s \in DOMAIN mapping \ {pdfs[n].stem} : mapping'[s] = mapping[s]
       /\ SaveStep =>
              /\ Persisted' = mapping
              /\ mapping' = mapping
       /\ (AssignStep /\ Stale /\ choice = "s") =>
              /\ mapping' = mapping
              /\ mapping_file' = mapping_file
              /\ skipped' = skipped + 1
      ]_vars

\* the save of a stem is under way whose last saved url is not in the catalog
\* of this run and differs from the url the stem has now
C11_Witness ==
    /\ pc = "save_dump"
    /\ pdfs[n].stem \in DOMAIN saved
    /\ first_match(docs, saved[pdfs[n].stem].url) = 0
    /\ first_match(docs, mapping[pdfs[n].stem]) # 0
    /\ mapping[pdfs[n].stem] # saved[pdfs[n].stem].url
    /\ Cardinality(DOMAIN mapping) = 2

\* the step in which the script runs from its start up to the loop or its exit
StartStep ==
    /\ pc \in {"idle", "interrupted"}
    /\ pc' \in {"resolve", "done"}

\* the run ends with exit code 1 having written nothing and touched no file
AbortsBeforeAnyWrite ==
    /\ pc' = "done"
    /\ exit_code' = 1
    /\ captures' = captures
    /\ txn' = txn
    /\ mapping_file' = mapping_file
    /\ next_uuid' = next_uuid
    /\ n' = 0
    /\ log' = <<>>
    /\ inserted' + updated' + skipped' = 0

\* C12 as stated: a run started without DATABASE_URL, or on a date whose
\* folder is missing, or for a site whose catalog is empty, ends with a
\* non-zero exit code before any write: captures and mapping.json are
\* unchanged and no file is resolved or hashed.
C12_Original ==
    [][(StartStep /\ (env'.db_url = "" \/ ~env'.dir_exists \/ env'.catalog_empty))
            => AbortsBeforeAnyWrite]_vars

\* C12 as amended: the same, where the empty catalog is fatal for a run whose
\* folder holds at least one PDF (with DATABASE_URL set and the folder present
\* but without PDFs the run ends before the catalog is read).
C12_FatalPreconditionsAbortBeforeAnyWrite ==
    [][(StartStep /\ (\/ env'.db_url = ""
                      \/ ~env'.dir_exists
                      \/ env'.catalog_empty /\ ~env'.dir_empty))
            => AbortsBeforeAnyWrite]_vars

\* a run on a folder with two PDFs found the catalog empty and ended with exit
\* code 1, while the table and mapping.json hold what earlier runs wrote
C12_Witness ==
    /\ pc = "done"
    /\ outcome = "fatal_catalog"
    /\ exit_code = 1
    /\ env.catalog_empty
    /\ Len(pdfs) = 2
    /\ mapping_file.complete
    /\ DOMAIN Persisted # {}
    /\ captures # {}
    /\ n = 0

\* C16 as stated: a run on a date whose folder exists and holds no PDF ends
\* with exit code 0 and writes nothing to captures or mapping.json, whatever
\* the catalog holds.
C16_Original ==
    [][(StartStep /\ env'.dir_empty) =>
            /\ pc' = "done"
            /\ exit_code' = 0
            /\ captures' = captures
            /\ txn' = txn
            /\ mapping_file' = mapping_file
      ]_vars

\* C16 as amended: the same, for a run that has DATABASE_URL set (without it
\* the run ends with exit code 1 before the folder is looked at).
C16_NoPdfsIsSuccessfulNoOp ==
    [][(StartStep /\ env'.dir_empty /\ env'.db_url # "") =>
            /\ pc' = "done"
            /\ exit_code' = 0
            /\ outcome' = "no_pdfs"
            /\ captures' = captures
            /\ txn' = txn
            /\ mapping_file' = mapping_file
            /\ next_uuid' = next_uuid
      ]_vars

\* a run on an existing folder without PDFs ended with exit code 0 although
\* the catalog of the site is empty
C16_Witness ==
    /\ pc = "done"
    /\ outcome = "no_pdfs"
    /\ exit_code = 0
    /\ env.dir_empty
    /\ env.catalog_empty
    /\ env.db_url # ""

\* the process ends inside the loop: it is terminated, or an exception ends it
CrashStep ==
    /\ pc \in {"resolve", "prompt", "assign", "save_open", "save_dump", "hash",
              "execute", "commit"}
    /\ \/ pc' \in {"idle", "interrupted"}
       \/ pc' = "done" /\ exit_code' = 1

\* C13 as stated: when the processing of a file starts, and when its row is
\* about to be upserted, mapping.json holds exactly the mapping dict of the
\* process, and wherever the process ends, mapping.json still holds every
\* entry that a completed save has written.
C13_Original ==
    [][/\ pc' \in {"resolve", "execute"} => Persisted' = mapping'
       /\ CrashStep => \A s \in DOMAIN saved :
                           /\ s \in DOMAIN Persisted'
                           /\ Persisted'[s] = saved[s].url
      ]_vars

\* C15: in a run that writes, the file whose upsert is committed is counted
\* as inserted exactly when the table held no row with its (document_id,
\* content_hash) right before the statement, and as updated otherwise; so when
\* the run has completed the table holds as many rows as before the run plus
\* the inserted count.
C15_InsertedIffNoRowBefore ==
    [][/\ (pc = "execute" /\ pc' = "commit") =>
              (row'.was_inserted <=>
                   RowsOf(txn, doc_id, sha256(pdfs[n].content)) = {})
       /\ CommitStep =>
              /\ IF RowsOf(captures, doc_id, sha256(pdfs[n].content)) = {}
                 THEN /\ inserted' = inserted + 1
                      /\ updated' = updated
                      /\ Cardinality(captures') = Cardinality(captures) + 1
                 ELSE /\ updated' = updated + 1
                      /\ inserted' = inserted
                      /\ Cardinality(captures') = Cardinality(captures)
       /\ (CommitStep /\ pc' = "done") =>
              Cardinality(captures') = Cardinality(captures0') + inserted'
      ]_vars

\* a completed run over two files reported the first as updated and the
\* second as inserted, and the table has one row more than before the run
C15_Witness ==
    /\ CompletedWrite
    /\ Len(pdfs) = 2
    /\ log[1].result = "updated"
    /\ log[2].result = "inserted"
    /\ Cardinality(captures) = Cardinality(captures0) + 1

\* the number of files of the run with one of the results
Counted(results) == Cardinality({k \in DOMAIN log : log[k].result \in results})

\* C17: between two files the three counters add up to the number of files
\* processed so far and each file has exactly one result; so when a run has
\* completed, inserted + updated + skipped is the number of PDFs enumerated,
\* and in a dry run updated is 0 and inserted + skipped is that number.
C17_OutcomesAddUp ==
    /\ pc = "resolve" =>
           /\ inserted + updated + skipped = n - 1
           /\ Len(log) = n - 1
    /\ (pc = "done" /\ outcome = "ok") =>
           /\ inserted + updated + skipped = Len(pdfs)
           /\ Len(log) = Len(pdfs)
           /\ inserted = Counted({"inserted", "would_insert"})
           /\ updated = Counted({"updated"})
           /\ skipped = Counted({"skipped"})
           /\ args.dry_run =>
                  /\ updated = 0
                  /\ inserted + skipped = Len(pdfs)
                  /\ Counted({"inserted"}) = 0

\* a completed writing run over two files: one skipped at the prompt, one
\* updated, none inserted
C17_Witness ==
    /\ pc = "done"
    /\ outcome = "ok"
    /\ ~args.dry_run
    /\ Len(pdfs) = 2
    /\ log[1].result = "skipped"
    /\ log[2].result = "updated"
    /\ inserted = 0
    /\ updated = 1
    /\ skipped = 1

\* a step of resolve_document for the file at hand, save_mapping included
ResolverStep ==
    /\ pc \in {"resolve", "prompt", "assign", "save_open", "save_dump"}
    /\ pc' \in {"resolve", "prompt", "assign", "save_open", "save_dump", "hash",
               "done"}

\* C18: no step of the resolution of a file adds, removes or changes the
\* mapping entry of another stem; when the dict changes, the stem's new entry
\* is the url of a document of the catalog; and when the resolution returns
\* a document_id, it is the id of a document of the catalog whose url is the
\* stem's entry in the dict and in mapping.json.
C18_ResolverFrameAndRange ==
    [][ResolverStep =>
           /\ DOMAIN mapping \subseteq DOMAIN mapping'
           /\ DOMAIN mapping' \subseteq DOMAIN mapping \cup {pdfs[n].stem}
           /\ \A s \in DOMAIN mapping \ {pdfs[n].stem} : mapping'[s] = mapping[s]
           /\ mapping' # mapping =>
                  \E k \in DOMAIN docs : mapping'[pdfs[n].stem] = docs[k].url
           /\ pc' = "hash" =>
                  /\ pdfs[n].stem \in DOMAIN mapping'
                  /\ \E k \in DOMAIN docs :
                         /\ docs[k].document_id = doc_id'
                         /\ docs[k].url = mapping'[pdfs[n].stem]
                  /\ Persisted' = mapping'
      ]_vars

\* the first file of a run was assigned at the prompt and its resolution has
\* returned, while the dict holds another stem's entry with another url
C18_Witness ==
    /\ pc = "hash"
    /\ n = 1
    /\ assigned
    /\ DOMAIN mapping = Range(Stems)
    /\ DOMAIN mapping # {pdfs[n].stem}
    /\ \E s \in DOMAIN mapping : mapping[s] # mapping[pdfs[n].stem]
    /\ Persisted = mapping

\* no two rows of the table have the same (document_id, content_hash)
Unique(table) ==
    \A r1, r2 \in table :
        (r1.document_id = r2.document_id /\ r1.content_hash = r2.content_hash)
            => r1 = r2

\* the (document_id, content_hash, file_path, capture_ts) records of a table
Records(table) ==
    {<<r.document_id, r.content_hash, r.file_path, r.capture_ts>> : r \in table}

\* the table one run leaves that starts from the table given, processes the
\* files k..len(pdfs) of this run without interruption and resolves each
\* file as this run did (log[k].doc_id, None for a skipped file); the
\* capture_id of a new row has the place of the uuid
RECURSIVE Uninterrupted(_, _)
Uninterrupted(table, k) ==
    IF k > Len(pdfs) THEN table
    ELSE IF log[k].doc_id = None THEN Uninterrupted(table, k + 1)
    ELSE Uninterrupted(
             upsert(table, capture_row(MaxUuid + k, log[k].doc_id, args.date,
                                       pdfs[k])).table,
             k + 1)

\* C14: when a writing run is terminated anywhere in its loop and the same
\* command is run again on the same folder and catalog, the table has at most
\* one row per (document_id, content_hash) in every state from the
\* interruption on, and when the second run has completed, the table holds
\* the same (document_id, content_hash, file_path, capture_ts) records, and
\* as many rows, as one uninterrupted run with the same resolutions leaves
\* when started from the table the interrupted run started from.
C14_ResumedRunEqualsUninterruptedRun ==
    /\ (pc = "interrupted" \/ resume.on) => (Unique(captures) /\ Unique(txn))
    /\ (resume.on /\ pc = "done" /\ outcome = "ok") =>
           /\ Records(captures) = Records(Uninterrupted(resume.table, 1))
           /\ Cardinality(captures) =
                  Cardinality(Uninterrupted(resume.table, 1))

\* the interrupted run had committed the row of the first of two files; the
\* second run found that row, reported the file as updated, and completed
C14_Witness ==
    /\ resume.on
    /\ pc = "done"
    /\ outcome = "ok"
    /\ Len(pdfs) = 2
    /\ log[1].result = "updated"
    /\ captures0 # resume.table
    /\ Cardinality(captures) = Cardinality(resume.table) + 1

====
